---- MODULE Spec2Model ----
(***************************************************************************)
(* bytelines: line iteration over a buffered byte source.                  *)
(*                                                                         *)
(* One instance of one of the four entry points is driven over one byte    *)
(* source:                                                                 *)
(*   "std"     ByteLines::next          (src/src/std.rs, borrowed view)    *)
(*   "iter"    ByteLinesIter::next      (src/src/std.rs, owned Vec)        *)
(*   "tokio"   AsyncByteLines::next     (src/src/tokio.rs, borrowed view)  *)
(*   "stream"  AsyncByteLines::into_stream (src/src/tokio.rs, owned Vec)   *)
(* The delimiter handling of src/src/util.rs is the operator handle_line.  *)
(***************************************************************************)
EXTENDS Integers, Sequences, FiniteSets, TLC

VARIABLES
    api,        \* which entry point the caller drives
    input,      \* the bytes the source holds
    pos,        \* number of bytes the reader has consumed
    buffer,     \* ByteLines.buffer / AsyncByteLines.buffer (Vec<u8>)
    pc,         \* "idle" | "reading": AsyncByteLines::next suspended at .await
    state,      \* try_unfold state of into_stream: "some" (holds lines) | "none"
    nread,      \* bytes appended so far by the read_until call in progress
    startPos,   \* reader position when the current / last fetch began
    lastRead,   \* outcome of the last completed read_until: io::Result<usize>
    result,     \* value returned by the last completed fetch
    item,       \* the Vec<u8> of the last Some(Ok(vec)) of iter / stream
    out,        \* what the caller saw, fetch after fetch
    faults,     \* number of failed reads and cancelled fetches so far
    reads,      \* the completed read_until calls: outcome and bytes consumed
    lost,       \* input positions consumed by failed reads and cancelled fetches
    other,      \* steps other tasks took while AsyncByteLines::next was suspended
    held,       \* the slice the caller kept from the previous RefByteLines::next
    cap         \* capacity of the allocation of RefByteLines.buffer

vars == <<api, input, pos, buffer, pc, state, nread, startPos, lastRead,
          result, item, out, faults, reads, lost, other, held, cap>>

----------------------------------------------------------------------------
(* Bounds of the model *)

MaxLen == 4         \* longest enumerated input
MaxExtra == 2       \* fetches allowed beyond the lines of the input
MaxFaults == 2      \* failed reads / cancelled fetches per behaviour
MaxOther == 1       \* steps of other tasks during one suspension

----------------------------------------------------------------------------
(* Bytes *)

LF == 10            \* b'\n'
CR == 13            \* b'\r'

Bytes == {LF, CR, 97}

RECURSIVE SeqsUpTo(_)
SeqsUpTo(n) ==
    IF n = 0 THEN {<<>>}
    ELSE LET shorter == SeqsUpTo(n - 1)
         IN  shorter \cup {Append(s, b) : s \in {t \in shorter : Len(t) = n - 1}, b \in Bytes}

\* res/numbers.txt as the tests read it: "0\n1\n...\n8\n"
Numbers == <<48, LF, 49, LF, 50, LF, 51, LF, 52, LF, 53, LF, 54, LF, 55, LF, 56, LF>>

Inputs == SeqsUpTo(MaxLen) \cup {Numbers}

Errors == {"E1", "E2"}

Apis == {"std", "iter", "tokio", "stream"}

----------------------------------------------------------------------------
(* The byte source: BufRead::read_until / AsyncBufReadExt::read_until *)

Min(S) == CHOOSE x \in S : \A y \in S : x <= y

Max3(a, b, c) == CHOOSE x \in {a, b, c} : \A y \in {a, b, c} : x >= y

\* io::Result<usize>
Ok(n)  == [ok |-> TRUE, n |-> n, err |-> "-"]
Err(e) == [ok |-> FALSE, n |-> 0, err |-> e]

\* number of bytes from position p up to and including the next delimiter,
\* or up to the end of the source when there is none
ReadLen(src, p) ==
    LET delims == {i \in (p + 1)..Len(src) : src[i] = LF}
    IN  IF delims = {} THEN Len(src) - p ELSE Min(delims) - p

\* number of bytes from position p that precede the next delimiter
Avail(src, p) ==
    LET delims == {i \in (p + 1)..Len(src) : src[i] = LF}
    IN  IF delims = {} THEN Len(src) - p ELSE Min(delims) - p - 1

\* read_until(b'\n', buf): the outcomes of one call that starts at position p
\* having already appended `done` bytes.  It appends up to and including the
\* delimiter and returns the count appended; or it fails after having
\* appended (and consumed) k bytes that hold no delimiter.
read_until(src, p, buf, done, mayFail) ==
    LET n == ReadLen(src, p)
    IN  {[res |-> Ok(done + n), buffer |-> buf \o SubSeq(src, p + 1, p + n), pos |-> p + n]}
        \cup
        (IF mayFail
         THEN {[res |-> Err(e), buffer |-> buf \o SubSeq(src, p + 1, p + k), pos |-> p + k] :
                  e \in Errors, k \in 0..Avail(src, p)}
         ELSE {})

----------------------------------------------------------------------------
(* src/src/util.rs *)

\* Option<io::Result<&[u8]>>; n is the length of the slice &buffer[..n]
None       == [tag |-> "None", n |-> 0, err |-> "-"]
SomeErr(e) == [tag |-> "SomeErr", n |-> 0, err |-> e]
SomeOk(n)  == [tag |-> "SomeOk", n |-> n, err |-> "-"]

\* no fetch has returned since the instance was last borrowed mutably
NoResult == [tag |-> "-", n |-> 0, err |-> "-"]

\* buffer[i] with Rust's 0-based index
At(buf, i) == buf[i + 1]

\* handle_line that leaves the delimiter in the slice
handle_line_keep_delim(inp, buf) ==
    IF ~inp.ok THEN SomeErr(inp.err)
    ELSE IF inp.n = 0 THEN None
    ELSE SomeOk(inp.n)

\* handle_line that pops the delimiter and never the carriage return
handle_line_keep_cr(inp, buf) ==
    IF ~inp.ok THEN SomeErr(inp.err)
    ELSE IF inp.n = 0 THEN None
    ELSE IF At(buf, inp.n - 1) = LF THEN SomeOk(inp.n - 1) ELSE SomeOk(inp.n)

\* handle_line that pops two carriage returns before the delimiter
handle_line_two_cr(inp, buf) ==
    IF ~inp.ok THEN SomeErr(inp.err)
    ELSE IF inp.n = 0 THEN None
    ELSE IF At(buf, inp.n - 1) = LF
         THEN IF inp.n - 1 > 0 /\ At(buf, inp.n - 2) = CR
              THEN IF inp.n - 2 > 0 /\ At(buf, inp.n - 3) = CR
                   THEN SomeOk(inp.n - 3)
                   ELSE SomeOk(inp.n - 2)
              ELSE SomeOk(inp.n - 1)
         ELSE SomeOk(inp.n)

\* handle_line whose carriage-return test is not nested in the delimiter test
handle_line_unnested(inp, buf) ==
    IF ~inp.ok THEN SomeErr(inp.err)
    ELSE IF inp.n = 0 THEN None
    ELSE LET n1 == IF At(buf, inp.n - 1) = LF THEN inp.n - 1 ELSE inp.n
         IN  IF n1 > 0 /\ At(buf, n1 - 1) = CR THEN SomeOk(n1 - 1) ELSE SomeOk(n1)

\* handle_line that tests for "no input" after popping
handle_line_empty_is_none(inp, buf) ==
    IF ~inp.ok THEN SomeErr(inp.err)
    ELSE IF inp.n = 0 THEN None
    ELSE IF At(buf, inp.n - 1) = LF
         THEN IF inp.n - 1 > 0 /\ At(buf, inp.n - 2) = CR
              THEN SomeOk(inp.n - 2)
              ELSE IF inp.n - 1 = 0 THEN None ELSE SomeOk(inp.n - 1)
         ELSE SomeOk(inp.n)

\* handle_line that pops the last byte whatever it is
handle_line_pop_always(inp, buf) ==
    IF ~inp.ok THEN SomeErr(inp.err)
    ELSE IF inp.n = 0 THEN None
    ELSE IF inp.n - 1 > 0 /\ At(buf, inp.n - 2) = CR /\ At(buf, inp.n - 1) = LF
         THEN SomeOk(inp.n - 2)
         ELSE SomeOk(inp.n - 1)

\* handle_line without the Ok(0) arm
handle_line_zero_is_line(inp, buf) ==
    IF ~inp.ok THEN SomeErr(inp.err)
    ELSE IF inp.n = 0 THEN SomeOk(0)
    ELSE IF At(buf, inp.n - 1) = LF
         THEN IF inp.n - 1 > 0 /\ At(buf, inp.n - 2) = CR
              THEN SomeOk(inp.n - 2)
              ELSE SomeOk(inp.n - 1)
         ELSE SomeOk(inp.n)

\* handle_line that ends the iteration on an error
handle_line_err_is_none(inp, buf) ==
    IF ~inp.ok THEN None
    ELSE IF inp.n = 0 THEN None
    ELSE IF At(buf, inp.n - 1) = LF
         THEN IF inp.n - 1 > 0 /\ At(buf, inp.n - 2) = CR
              THEN SomeOk(inp.n - 2)
              ELSE SomeOk(inp.n - 1)
         ELSE SomeOk(inp.n)

\* handle_line that tests the buffer, not the count, for "no input"
handle_line_empty_buffer_is_none(inp, buf) ==
    IF ~inp.ok THEN SomeErr(inp.err)
    ELSE IF buf = <<>> THEN None
    ELSE IF inp.n = 0 THEN SomeOk(0)
    ELSE IF At(buf, inp.n - 1) = LF
         THEN IF inp.n - 1 > 0 /\ At(buf, inp.n - 2) = CR
              THEN SomeOk(inp.n - 2)
              ELSE SomeOk(inp.n - 1)
         ELSE SomeOk(inp.n)

handle_line(inp, buf) ==
    IF ~inp.ok THEN SomeErr(inp.err)
    ELSE IF inp.n = 0 THEN None
    ELSE IF At(buf, inp.n - 1) = LF
         THEN IF inp.n - 1 > 0 /\ At(buf, inp.n - 2) = CR
              THEN SomeOk(inp.n - 2)
              ELSE SomeOk(inp.n - 1)
         ELSE SomeOk(inp.n)

\* Option::transpose of AsyncByteLines::next: Option<Result<T>> to Result<Option<T>>
transpose(r) ==
    CASE r.tag = "None"    -> [tag |-> "OkNone", n |-> 0, err |-> "-"]
      [] r.tag = "SomeOk"  -> [tag |-> "OkSome", n |-> r.n, err |-> "-"]
      [] r.tag = "SomeErr" -> [tag |-> "Err", n |-> 0, err |-> r.err]

\* a fetch that does not clear the buffer
clear_skipped(buf) == buf

\* Vec::clear
clear(buf) == <<>>

\* to_vec applied to the whole buffer instead of the slice
to_vec_whole(buf, n) == buf

\* <[u8]>::to_vec on &buffer[..n]
to_vec(buf, n) == SubSeq(buf, 1, n)

----------------------------------------------------------------------------
(* What the caller sees *)

Line(bytes) == [kind |-> "line", bytes |-> bytes, err |-> "-"]
Eof         == [kind |-> "eof", bytes |-> <<>>, err |-> "-"]
Failure(e)  == [kind |-> "failure", bytes |-> <<>>, err |-> e]

\* the classified result of a fetch that returned r while the buffer held buf
Observe(r, buf) ==
    CASE r.tag \in {"SomeOk", "OkSome"} -> Line(SubSeq(buf, 1, r.n))
      [] r.tag \in {"None", "OkNone"}   -> Eof
      [] r.tag \in {"SomeErr", "Err"}   -> Failure(r.err)

\* number of segments of the input: bounds the length of a behaviour
NumReads(src) ==
    Cardinality({i \in 1..Len(src) : src[i] = LF})
      + (IF Len(src) > 0 /\ src[Len(src)] # LF THEN 1 ELSE 0)

MayFetch == Len(out) < NumReads(input) + MaxExtra

MayFail == faults < MaxFaults

\* one completed read_until call: its outcome and the bytes it consumed
Read(res, bytes) == [res |-> res, bytes |-> bytes]

\* the caller keeps no slice of an earlier call
NoSlice == [n |-> -1, live |-> FALSE, alias |-> FALSE, bytes |-> <<>>]

----------------------------------------------------------------------------
Init ==
    /\ api \in Apis
    /\ input \in Inputs
    /\ pos = 0
    /\ buffer = <<>>
    /\ pc = "idle"
    /\ state = "some"
    /\ nread = 0
    /\ startPos = 0
    /\ lastRead = Ok(0)
    /\ result = NoResult
    /\ item = <<>>
    /\ out = <<>>
    /\ faults = 0
    /\ reads = <<>>
    /\ lost = {}
    /\ other = 0
    /\ held = NoSlice
    /\ cap = 0

(* src/src/std.rs: LendingIterator::next for ByteLines *)
ByteLines_next ==
    /\ api = "std"
    /\ MayFetch
    /\ \E o \in read_until(input, pos, clear(buffer), 0, MayFail) :
          LET r == handle_line(o.res, o.buffer)
          IN  /\ buffer' = o.buffer
              /\ pos' = o.pos
              /\ startPos' = pos
              /\ lastRead' = o.res
              /\ result' = r
              /\ out' = Append(out, Observe(r, o.buffer))
              /\ faults' = IF o.res.ok THEN faults ELSE faults + 1
              /\ reads' = Append(reads, Read(o.res, SubSeq(input, pos + 1, o.pos)))
              /\ lost' = IF o.res.ok THEN lost ELSE lost \cup (pos + 1)..o.pos
    /\ UNCHANGED <<api, input, pc, state, nread, item, other, held, cap>>

(* src/src/std.rs: Iterator::next for ByteLinesIter *)
ByteLinesIter_next ==
    /\ api = "iter"
    /\ MayFetch
    /\ \E o \in read_until(input, pos, clear(buffer), 0, MayFail) :
          LET r == handle_line(o.res, o.buffer)
          IN  /\ buffer' = o.buffer
              /\ pos' = o.pos
              /\ startPos' = pos
              /\ lastRead' = o.res
              /\ result' = r
              /\ item' = IF r.tag = "SomeOk" THEN to_vec(o.buffer, r.n) ELSE item
              /\ out' = Append(out, IF r.tag = "SomeOk"
                                    THEN Line(to_vec(o.buffer, r.n))
                                    ELSE Observe(r, o.buffer))
              /\ faults' = IF o.res.ok THEN faults ELSE faults + 1
              /\ reads' = Append(reads, Read(o.res, SubSeq(input, pos + 1, o.pos)))
              /\ lost' = IF o.res.ok THEN lost ELSE lost \cup (pos + 1)..o.pos
    /\ UNCHANGED <<api, input, pc, state, nread, other, held, cap>>

(* src/src/tokio.rs: AsyncByteLines::next, up to the .await of read_until; *)
(* into_stream's closure runs the same code while try_unfold holds `lines` *)
AsyncByteLines_next_begin ==
    /\ api \in {"tokio", "stream"}
    /\ pc = "idle"
    /\ state = "some"
    /\ MayFetch
    /\ buffer' = clear(buffer)
    /\ nread' = 0
    /\ startPos' = pos
    /\ pc' = "reading"
    /\ result' = NoResult
    /\ other' = 0
    /\ UNCHANGED <<api, input, pos, state, lastRead, item, out, faults, reads, lost, held, cap>>

(* the read_until future returns Pending after appending k bytes without a delimiter *)
read_until_pending ==
    /\ pc = "reading"
    /\ \E k \in 1..Avail(input, pos) :
          /\ buffer' = buffer \o SubSeq(input, pos + 1, pos + k)
          /\ pos' = pos + k
          /\ nread' = nread + k
    /\ UNCHANGED <<api, input, pc, state, startPos, lastRead, result, item, out, faults,
                   reads, lost, other, held, cap>>

(* src/src/tokio.rs: AsyncByteLines::next, from the completion of read_until *)
AsyncByteLines_next_ready ==
    /\ api = "tokio"
    /\ pc = "reading"
    /\ \E o \in read_until(input, pos, buffer, nread, MayFail) :
          LET handled == handle_line(o.res, o.buffer)
          IN  /\ buffer' = o.buffer
              /\ pos' = o.pos
              /\ lastRead' = o.res
              /\ result' = transpose(handled)
              /\ out' = Append(out, Observe(transpose(handled), o.buffer))
              /\ faults' = IF o.res.ok THEN faults ELSE faults + 1
              /\ reads' = Append(reads, Read(o.res, SubSeq(input, startPos + 1, o.pos)))
              /\ lost' = IF o.res.ok THEN lost ELSE lost \cup (startPos + 1)..o.pos
    /\ pc' = "idle"
    /\ nread' = 0
    /\ UNCHANGED <<api, input, state, startPos, item, other, held, cap>>

(* the caller drops the pending future of AsyncByteLines::next *)
AsyncByteLines_next_cancel ==
    /\ api = "tokio"
    /\ pc = "reading"
    /\ MayFail
    /\ pc' = "idle"
    /\ nread' = 0
    /\ faults' = faults + 1
    /\ lost' = lost \cup (startPos + 1)..pos
    /\ UNCHANGED <<api, input, pos, buffer, state, startPos, lastRead, result, item, out,
                   reads, other, held, cap>>

(* src/src/tokio.rs: into_stream, the closure of try_unfold from the completion *)
(* of read_until: `?` ends the stream on Err, None ends it, Some(line) yields  *)
(* (line.to_vec(), lines)                                                      *)
into_stream_ready ==
    /\ api = "stream"
    /\ pc = "reading"
    /\ \E o \in read_until(input, pos, buffer, nread, MayFail) :
          LET next == transpose(handle_line(o.res, o.buffer))
          IN  /\ buffer' = o.buffer
              /\ pos' = o.pos
              /\ lastRead' = o.res
              /\ result' = CASE next.tag = "Err"    -> SomeErr(next.err)
                              [] next.tag = "OkNone" -> None
                              [] next.tag = "OkSome" -> SomeOk(next.n)
              /\ item' = IF next.tag = "OkSome" THEN to_vec(o.buffer, next.n) ELSE item
              /\ state' = IF next.tag = "OkSome" THEN "some" ELSE "none"
              /\ out' = Append(out, IF next.tag = "OkSome"
                                    THEN Line(to_vec(o.buffer, next.n))
                                    ELSE Observe(next, o.buffer))
              /\ faults' = IF o.res.ok THEN faults ELSE faults + 1
              /\ reads' = Append(reads, Read(o.res, SubSeq(input, startPos + 1, o.pos)))
              /\ lost' = IF o.res.ok THEN lost ELSE lost \cup (startPos + 1)..o.pos
    /\ pc' = "idle"
    /\ nread' = 0
    /\ UNCHANGED <<api, input, startPos, other, held, cap>>

(* try_unfold polled after its state was dropped: Poll::Ready(None) *)
into_stream_done ==
    /\ api = "stream"
    /\ pc = "idle"
    /\ state = "none"
    /\ MayFetch
    /\ result' = None
    /\ out' = Append(out, Eof)
    /\ UNCHANGED <<api, input, pos, buffer, pc, state, nread, startPos, lastRead, item, faults,
                   reads, lost, other, held, cap>>

Next ==
    \/ ByteLines_next
    \/ ByteLinesIter_next
    \/ AsyncByteLines_next_begin
    \/ read_until_pending
    \/ AsyncByteLines_next_ready
    \/ AsyncByteLines_next_cancel
    \/ into_stream_ready
    \/ into_stream_done

Spec == Init /\ [][Next]_vars

----------------------------------------------------------------------------
(* src/src/tokio.rs: the asynchronous entry points with the other tasks the *)
(* scheduler runs while AsyncByteLines::next is suspended at its .await     *)

other_task_step ==
    /\ pc = "reading"
    /\ other < MaxOther
    /\ other' = other + 1
    /\ UNCHANGED <<api, input, pos, buffer, pc, state, nread, startPos, lastRead, result, item,
                   out, faults, reads, lost, held, cap>>

InitAsync == Init /\ api \in {"tokio", "stream"}

NextAsync ==
    \/ AsyncByteLines_next_begin
    \/ read_until_pending
    \/ other_task_step
    \/ AsyncByteLines_next_ready
    \/ AsyncByteLines_next_cancel
    \/ into_stream_ready
    \/ into_stream_done

SpecAsync == InitAsync /\ [][NextAsync]_vars

----------------------------------------------------------------------------
(* src/src/lib.rs: RefByteLines ("ref") and the ByteLines that wraps it     *)
(* ("owned")                                                                *)

\* two lines of eight bytes, the second ended by "\r\n"
LongLines == <<97, 97, 97, 97, 97, 97, 97, 97, LF,
               98, 98, 98, 98, 98, 98, 98, 98, CR, LF>>

LibApis == {"ref", "owned"}

\* the thread panicked inside next: index out of bounds / subtract with overflow
Panic == [tag |-> "Panic", n |-> 0, err |-> "-"]

Panicked == [kind |-> "panic", bytes |-> <<>>, err |-> "-"]

ObserveLib(r, buf) == IF r.tag = "Panic" THEN Panicked ELSE Observe(r, buf)

\* the match of RefByteLines::next: as handle_line, but buffer[n - 1] is
\* evaluated for the carriage return also when n is 0, where n - 1 is no index
RefByteLines_match(inp, buf) ==
    IF ~inp.ok THEN SomeErr(inp.err)
    ELSE IF inp.n = 0 THEN None
    ELSE IF At(buf, inp.n - 1) = LF
         THEN IF inp.n - 1 = 0 THEN Panic
              ELSE IF At(buf, inp.n - 2) = CR
                   THEN SomeOk(inp.n - 2)
                   ELSE SomeOk(inp.n - 1)
         ELSE SomeOk(inp.n)

\* the values of the index expressions n - 1 that handle_line evaluates
handle_line_indices(inp, buf) ==
    IF ~inp.ok \/ inp.n = 0 THEN {}
    ELSE {inp.n - 1} \cup (IF At(buf, inp.n - 1) = LF /\ inp.n - 1 > 0 THEN {inp.n - 2} ELSE {})

\* the values of the index expressions n - 1 that RefByteLines::next evaluates
RefByteLines_indices(inp, buf) ==
    IF ~inp.ok \/ inp.n = 0 THEN {}
    ELSE {inp.n - 1} \cup (IF At(buf, inp.n - 1) = LF THEN {inp.n - 2} ELSE {})

\* Vec growth on extend_from_slice: the capacity once `required` bytes are held
Grow(c, required) == IF required <= c THEN c ELSE Max3(2 * c, required, 8)

\* a next that hands out a copy of the slice
transmute_copy(buf, n) == [n |-> n, live |-> TRUE, alias |-> FALSE, bytes |-> SubSeq(buf, 1, n)]

\* std::mem::transmute::<&[u8], &'a [u8]>(&self.buffer[..n]): a slice that
\* still points into the buffer after next returned
transmute(buf, n) == [n |-> n, live |-> TRUE, alias |-> TRUE, bytes |-> SubSeq(buf, 1, n)]

\* the Vec<u8> the wrapping ByteLines hands out
Owned(vec) == [n |-> Len(vec), live |-> TRUE, alias |-> FALSE, bytes |-> vec]

\* the slice or item of the previous call, as the caller still holds it once
\* this call reallocated the buffer (moved) or not
Keep(r, buf, moved) ==
    IF r.tag # "SomeOk" THEN NoSlice
    ELSE IF api = "ref"
         THEN [transmute(buf, r.n) EXCEPT !.live = ~moved]
         ELSE Owned(to_vec(buf, r.n))

InitLib ==
    /\ api \in LibApis
    /\ input \in Inputs \cup {LongLines}
    /\ pos = 0
    /\ buffer = <<>>
    /\ pc = "idle"
    /\ state = "some"
    /\ nread = 0
    /\ startPos = 0
    /\ lastRead = Ok(0)
    /\ result = NoResult
    /\ item = <<>>
    /\ out = <<>>
    /\ faults = 0
    /\ reads = <<>>
    /\ lost = {}
    /\ other = 0
    /\ held = NoSlice
    /\ cap = 0

(* src/src/lib.rs: Iterator::next for RefByteLines *)
RefByteLines_next ==
    /\ api = "ref"
    /\ pc = "idle"
    /\ MayFetch
    /\ \E o \in read_until(input, pos, clear(buffer), 0, MayFail) :
       \E moved \in {FALSE} \cup {Len(o.buffer) > cap} :
          LET r == RefByteLines_match(o.res, o.buffer)
          IN  /\ held' = Keep(result, buffer, moved)
              /\ cap' = Grow(cap, Len(o.buffer))
              /\ buffer' = o.buffer
              /\ pos' = o.pos
              /\ startPos' = pos
              /\ lastRead' = o.res
              /\ result' = r
              /\ pc' = IF r = Panic THEN "panicked" ELSE "idle"
              /\ out' = Append(out, ObserveLib(r, o.buffer))
              /\ faults' = IF o.res.ok THEN faults ELSE faults + 1
              /\ reads' = Append(reads, Read(o.res, SubSeq(input, pos + 1, o.pos)))
              /\ lost' = IF o.res.ok THEN lost ELSE lost \cup (pos + 1)..o.pos
    /\ UNCHANGED <<api, input, state, nread, item, other>>

(* src/src/lib.rs: Iterator::next for ByteLines *)
LibByteLines_next ==
    /\ api = "owned"
    /\ pc = "idle"
    /\ MayFetch
    /\ \E o \in read_until(input, pos, clear(buffer), 0, MayFail) :
          LET r == RefByteLines_match(o.res, o.buffer)
          IN  /\ held' = Keep(result, buffer, FALSE)
              /\ cap' = Grow(cap, Len(o.buffer))
              /\ buffer' = o.buffer
              /\ pos' = o.pos
              /\ startPos' = pos
              /\ lastRead' = o.res
              /\ result' = r
              /\ item' = IF r.tag = "SomeOk" THEN to_vec(o.buffer, r.n) ELSE item
              /\ pc' = IF r = Panic THEN "panicked" ELSE "idle"
              /\ out' = Append(out, IF r.tag = "SomeOk"
                                    THEN Line(to_vec(o.buffer, r.n))
                                    ELSE ObserveLib(r, o.buffer))
              /\ faults' = IF o.res.ok THEN faults ELSE faults + 1
              /\ reads' = Append(reads, Read(o.res, SubSeq(input, pos + 1, o.pos)))
              /\ lost' = IF o.res.ok THEN lost ELSE lost \cup (pos + 1)..o.pos
    /\ UNCHANGED <<api, input, state, nread, other>>

NextLib ==
    \/ RefByteLines_next
    \/ LibByteLines_next

SpecLib == InitLib /\ [][NextLib]_vars

----------------------------------------------------------------------------
(* src/src/util.rs: handle_line called on its own, with any outcome of a read *)
(* and any buffer that holds at least the bytes counted                       *)

InitHandle ==
    /\ api = "handle_line"
    /\ input = <<>>
    /\ pos = 0
    /\ buffer \in SeqsUpTo(MaxLen)
    /\ pc = "idle"
    /\ state = "some"
    /\ nread = 0
    /\ startPos = 0
    /\ lastRead \in {Ok(n) : n \in 0..Len(buffer)} \cup {Err(e) : e \in Errors}
    /\ result = NoResult
    /\ item = <<>>
    /\ out = <<>>
    /\ faults = 0
    /\ reads = <<>>
    /\ lost = {}
    /\ other = 0
    /\ held = NoSlice
    /\ cap = 0

handle_line_call ==
    /\ api = "handle_line"
    /\ result = NoResult
    /\ result' = handle_line(lastRead, buffer)
    /\ UNCHANGED <<api, input, pos, buffer, pc, state, nread, startPos, lastRead, item, out,
                   faults, reads, lost, other, held, cap>>

InitUtil == Init \/ InitHandle

NextUtil == Next \/ handle_line_call

SpecUtil == InitUtil /\ [][NextUtil]_vars

----------------------------------------------------------------------------
(* Reference notions the properties are stated with *)

Max(S) == CHOOSE x \in S : \A y \in S : x >= y

Last(s) == s[Len(s)]

LFs(src) == {i \in 1..Len(src) : src[i] = LF}

Unterminated(src) == Len(src) > 0 /\ src[Len(src)] # LF

\* the positions after which the input is cut: every delimiter, and the end
\* of an input whose last byte is no delimiter
Cuts(src) == LFs(src) \cup (IF Unterminated(src) THEN {Len(src)} ELSE {})

\* the k-th segment of the input, its terminator included
Segment(src, k) ==
    LET end   == CHOOSE c \in Cuts(src) : Cardinality({d \in Cuts(src) : d <= c}) = k
        prior == {d \in Cuts(src) : d < end}
        start == IF prior = {} THEN 1 ELSE Max(prior) + 1
    IN  SubSeq(src, start, end)

\* a segment without its terminator: "\r\n", or else "\n"
WithoutTerminator(seg) ==
    LET len == Len(seg)
    IN  IF len >= 2 /\ seg[len - 1] = CR /\ seg[len] = LF THEN SubSeq(seg, 1, len - 2)
        ELSE IF len >= 1 /\ seg[len] = LF THEN SubSeq(seg, 1, len - 1)
        ELSE seg

\* what the i-th fetch returns over a source that never fails
Expected(src, i) ==
    IF i <= Cardinality(Cuts(src)) THEN Line(WithoutTerminator(Segment(src, i))) ELSE Eof

\* the last fetch returned a line / end-of-stream / a failure
IsLine    == result.tag \in {"SomeOk", "OkSome"}
IsEof     == result.tag \in {"None", "OkNone"}
IsFailure == result.tag \in {"SomeErr", "Err"}

\* the bytes of the line the last fetch returned
View == IF api \in {"iter", "stream"} THEN item ELSE SubSeq(buffer, 1, result.n)

\* the entry points whose every fetch issues one read
Core == {"std", "iter", "tokio"}

----------------------------------------------------------------------------
(* C1: over a source that never fails, the successive fetches of ByteLines  *)
(* and AsyncByteLines return the segments of the input cut after each 0x0A, *)
(* in order, each once, without its terminator, and then end-of-stream.     *)
C1_SegmentsInOrder ==
    (api \in {"std", "tokio"} /\ faults = 0) =>
        \A i \in 1..Len(out) : out[i] = Expected(input, i)

C1_Witness ==
    /\ api \in {"std", "tokio"}
    /\ faults = 0
    /\ input = Numbers
    /\ Len(out) = 10
    /\ \A i \in 1..9 : out[i] = Line(<<47 + i>>)
    /\ out[10] = Eof

(* C2: a read that appends the single byte 0x0A returns a zero-length line; *)
(* end-of-stream is returned only when the read appended 0 bytes; the input *)
(* "\n" yields one empty line and then end-of-stream.                       *)
C2_EmptyLineIsNotEof ==
    (api \in Core /\ result # NoResult) =>
        /\ (lastRead.ok /\ buffer = <<LF>>) => (IsLine /\ View = <<>> /\ Last(out) = Line(<<>>))
        /\ IsEof => (lastRead = Ok(0) /\ buffer = <<>>)
        /\ (input = <<LF>> /\ faults = 0) =>
              \A i \in 1..Len(out) : out[i] = IF i = 1 THEN Line(<<>>) ELSE Eof

C2_Witness ==
    /\ api \in Core
    /\ input = <<LF, LF>>
    /\ pos = 2
    /\ buffer = <<LF>>
    /\ IsLine
    /\ out = <<Line(<<>>), Line(<<>>)>>

(* C3: when the appended bytes end in 0x0A the view excludes that byte, and *)
(* no view any fetch returned holds a 0x0A at any position.                 *)
C3_NoDelimiterInView ==
    /\ (IsLine /\ Last(buffer) = LF) =>
          (Len(View) < Len(buffer) /\ View = SubSeq(buffer, 1, Len(View)))
    /\ IsLine => \A j \in 1..Len(View) : View[j] # LF
    /\ \A i \in 1..Len(out) : \A j \in 1..Len(out[i].bytes) : out[i].bytes[j] # LF

C3_Witness ==
    /\ IsLine
    /\ buffer = <<97, 97, LF>>
    /\ View = <<97, 97>>
    /\ faults = 1

(* C4: when the appended bytes end in 0x0D 0x0A the view is the appended    *)
(* bytes without exactly these two: "a\r\r\n" gives "a\r", "\r\n" gives "". *)
C4_CrLfRemovedOnce ==
    (IsLine /\ Len(buffer) >= 2 /\ buffer[Len(buffer) - 1] = CR /\ Last(buffer) = LF) =>
        /\ View = SubSeq(buffer, 1, Len(buffer) - 2)
        /\ Last(out) = Line(SubSeq(buffer, 1, Len(buffer) - 2))

C4_Witness ==
    /\ IsLine
    /\ buffer = <<97, CR, CR, LF>>
    /\ View = <<97, CR>>

(* C5: a 0x0D is removed only when it immediately precedes the removed      *)
(* 0x0A: a 0x0D inside the line, and one ending a final line that has no    *)
(* 0x0A, stay in the view.                                                  *)
C5_LoneCrPreserved ==
    IsLine =>
        /\ Last(buffer) # LF => View = buffer
        /\ \A i \in 1..Len(buffer) :
              (buffer[i] = CR /\ ~(i = Len(buffer) - 1 /\ Last(buffer) = LF)) =>
                  (i <= Len(View) /\ View[i] = CR)
        /\ Last(out).bytes = View

C5_Witness ==
    /\ IsLine
    /\ input = <<CR, 97, CR>>
    /\ buffer = <<CR, 97, CR>>
    /\ View = <<CR, 97, CR>>
    /\ pos = 3

(* C6 as the specification words it: the view is the first n' bytes of the  *)
(* buffer, n' computed from the count n by two successive steps, the 0x0A   *)
(* step and then the 0x0D step.                                             *)
TwoStepStrip(buf, n) ==
    LET n1 == IF n > 0 /\ At(buf, n - 1) = LF THEN n - 1 ELSE n
    IN  IF n1 > 0 /\ At(buf, n1 - 1) = CR THEN n1 - 1 ELSE n1

C6_TwoStepStripping ==
    (IsLine /\ lastRead.n = Len(buffer)) =>
        View = SubSeq(buffer, 1, TwoStepStrip(buffer, lastRead.n))

(* C6, amended: for a read that appended n > 0 bytes (n the buffer length), *)
(* the view is the first n' bytes of the buffer, where n' is n, less one if *)
(* byte n-1 is 0x0A, and less one more only if that 0x0A was removed, bytes *)
(* remain and the byte before it is 0x0D.                                   *)
NestedStrip(buf, n) ==
    LET n1 == IF n > 0 /\ At(buf, n - 1) = LF THEN n - 1 ELSE n
    IN  IF n1 < n /\ n1 > 0 /\ At(buf, n1 - 1) = CR THEN n1 - 1 ELSE n1

C6_NestedStripping ==
    /\ (lastRead.ok /\ lastRead.n > 0 /\ result # NoResult /\ api \in Core) =>
          (IsLine /\ lastRead.n = Len(buffer))
    /\ (IsLine /\ lastRead.n = Len(buffer)) =>
          /\ result.n = NestedStrip(buffer, lastRead.n)
          /\ View = SubSeq(buffer, 1, NestedStrip(buffer, lastRead.n))

C6_Witness ==
    /\ IsLine
    /\ lastRead = Ok(2)
    /\ buffer = <<97, CR>>
    /\ View = <<97, CR>>
    /\ TwoStepStrip(buffer, 2) = 1

(* C7: a final line that no 0x0A ends is returned by exactly one fetch, the *)
(* one after the terminated lines, with all of its bytes, and every fetch   *)
(* after it returns end-of-stream.                                          *)
FinalLine(src) ==
    SubSeq(src, (IF LFs(src) = {} THEN 0 ELSE Max(LFs(src))) + 1, Len(src))

C7_FinalLineOnce ==
    (faults = 0 /\ Unterminated(input)) =>
        \A i \in 1..Len(out) :
            /\ i <= Cardinality(LFs(input)) => out[i].kind = "line"
            /\ i = Cardinality(LFs(input)) + 1 => out[i] = Line(FinalLine(input))
            /\ i > Cardinality(LFs(input)) + 1 => out[i] = Eof

C7_Witness ==
    /\ faults = 0
    /\ input = <<97, LF, 97, CR>>
    /\ out = <<Line(<<97>>), Line(<<97, CR>>), Eof, Eof>>

(* C8: once a fetch of ByteLines, ByteLinesIter or AsyncByteLines returned  *)
(* end-of-stream, every later fetch whose read does not fail returns        *)
(* end-of-stream.                                                           *)
C8_ExhaustionIsIdempotent ==
    [][(/\ api \in Core
        /\ Len(out) > 0
        /\ Last(out) = Eof
        /\ Len(out') = Len(out) + 1
        /\ faults' = faults) => (Last(out') = Eof /\ result'.tag \in {"None", "OkNone"})]_vars

C8_Witness ==
    /\ api \in Core
    /\ Len(input) > 0
    /\ Len(out) >= 3
    /\ out[Len(out) - 2].kind = "line"
    /\ out[Len(out) - 1] = Eof
    /\ Last(out) = Eof

(* C9: a failed read makes its own fetch return that failure, with the      *)
(* source's error, and nothing else does; the fetch after a failed one      *)
(* clears the buffer, reads the source afresh and returns what that read    *)
(* yields.                                                                  *)
C9_FailurePassedThrough ==
    /\ (api \in Core /\ result # NoResult) =>
          /\ ~lastRead.ok => (IsFailure /\ result.err = lastRead.err
                                /\ Last(out) = Failure(lastRead.err))
          /\ IsFailure => (~lastRead.ok /\ lastRead.err = result.err)
    /\ (api \in Core /\ result # NoResult /\ Len(out) >= 2
          /\ out[Len(out) - 1].kind = "failure") =>
          /\ buffer = SubSeq(input, startPos + 1, pos)
          /\ Last(out) = IF ~lastRead.ok THEN Failure(lastRead.err)
                         ELSE IF lastRead.n = 0 THEN Eof
                         ELSE Line(WithoutTerminator(SubSeq(input, startPos + 1, pos)))

C9_Witness ==
    /\ api \in Core
    /\ input = <<97, 97, LF, 97>>
    /\ Len(out) = 2
    /\ out[1] = Failure("E2")
    /\ out[2] = Line(<<97>>)
    /\ buffer = <<97, LF>>
    /\ startPos = 1

(* C10: in ByteLinesIter and in the Stream of into_stream a failure is the  *)
(* last item: no line and no failure is produced after it.                  *)
C10_FailureIsTerminal ==
    api \in {"iter", "stream"} =>
        \A i \in 1..Len(out) : \A j \in 1..Len(out) :
            (i < j /\ out[i].kind = "failure") => out[j] = Eof

(* C11: over a source that does not fail, ByteLinesIter and the Stream of   *)
(* into_stream yield as many items as the borrowing core yields views, item *)
(* i equal to view i (the segment i of C1); an item is a copy of the view   *)
(* and keeps its value when later fetches overwrite the buffer.             *)
C11_OwnedItemsEqualViews ==
    (api \in {"iter", "stream"} /\ faults = 0) =>
        /\ \A i \in 1..Len(out) : out[i] = Expected(input, i)
        /\ IsLine => (item = SubSeq(buffer, 1, result.n) /\ Last(out) = Line(item))

C11_Witness ==
    /\ api \in {"iter", "stream"}
    /\ faults = 0
    /\ input = <<97, 97, LF, CR>>
    /\ out = <<Line(<<97, 97>>), Line(<<CR>>)>>
    /\ buffer = <<CR>>
    /\ item = <<CR>>

(* C12: the four entry points turn the same read outcomes into the same     *)
(* results: item i is what read i gives (a failure, end-of-stream for 0, or *)
(* the line without its terminator), and an item produced without a read is *)
(* the end-of-stream a read of the exhausted source would have given.       *)
ClassifyRead(r) ==
    IF ~r.res.ok THEN Failure(r.res.err)
    ELSE IF r.res.n = 0 THEN Eof
    ELSE Line(WithoutTerminator(r.bytes))

C12_SyncAsyncIdentical ==
    \A i \in 1..Len(out) :
        IF i <= Len(reads)
        THEN out[i] = ClassifyRead(reads[i])
        ELSE out[i] = Eof /\ pos = Len(input)

(* C15: every fetch clears the buffer before it reads: while a read is      *)
(* pending and when the fetch returns, the buffer holds the bytes of this   *)
(* fetch's read and nothing else, so a view never holds bytes of an earlier *)
(* line, of a failed read or of a cancelled fetch.                          *)
C15_BufferHoldsOwnRead ==
    /\ pc = "reading" => buffer = SubSeq(input, startPos + 1, pos)
    /\ (result # NoResult /\ (api \in Core \/ IsLine)) =>
          /\ buffer = SubSeq(input, startPos + 1, pos)
          /\ IsLine => View = SubSeq(input, startPos + 1, startPos + Len(View))

C15_Witness ==
    /\ api = "tokio"
    /\ input = <<97, CR, LF, 97>>
    /\ out = <<Line(<<97>>), Line(<<97>>)>>
    /\ startPos = 3
    /\ buffer = <<97>>
    /\ IsLine

(* C18: the bytes a failed read or a cancelled fetch consumed are never in  *)
(* a later view: the line returned after a retry is made of the bytes read  *)
(* after the failure only, and can be a proper suffix of the source's line. *)
C18_LostBytesNeverDelivered ==
    /\ (result # NoResult /\ lastRead.ok) =>
          (startPos + 1)..pos \cap lost = {}
    /\ IsLine =>
          /\ View = WithoutTerminator(SubSeq(input, startPos + 1, pos))
          /\ Len(buffer) = pos - startPos

C18_Witness ==
    /\ api \in Core
    /\ input = <<97, 97, LF>>
    /\ lost = {1}
    /\ IsLine
    /\ View = <<97>>
    /\ Expected(input, 1) = Line(<<97, 97>>)

(* C13: handle_line gives exactly one of three results: None for a count of *)
(* 0 whatever the buffer holds, the read's failure for a failure, and for a *)
(* count n > 0 a line, the slice of the buffer from its start of length n,  *)
(* n-1 or n-2; the first fetch over an empty source returns end-of-stream.  *)
C13_ThreeWayClassification ==
    /\ (api = "handle_line" /\ result # NoResult) =>
          /\ (lastRead.ok /\ lastRead.n = 0) => result = None
          /\ ~lastRead.ok => result = SomeErr(lastRead.err)
          /\ (lastRead.ok /\ lastRead.n > 0) =>
                /\ result.tag = "SomeOk"
                /\ result.n \in (lastRead.n - 2)..lastRead.n
                /\ result.n >= 0
    /\ (api \in Core /\ result # NoResult) =>
          /\ IsEof <=> (lastRead.ok /\ lastRead.n = 0)
          /\ IsFailure <=> ~lastRead.ok
          /\ IsLine <=> (lastRead.ok /\ lastRead.n > 0)
          /\ IsLine => View = SubSeq(buffer, 1, Len(View))
    /\ (api \in Apis /\ input = <<>> /\ Len(out) >= 1 /\ reads[1].res.ok) => out[1] = Eof

C13_Witness ==
    /\ api = "handle_line"
    /\ buffer = <<97, LF>>
    /\ lastRead = Ok(0)
    /\ result = None

(* C16: AsyncByteLines::next suspends only in its read: the step that       *)
(* starts a fetch leaves the buffer cleared, the steps taken while it is    *)
(* suspended return nothing and those of other tasks leave buffer and       *)
(* reader alone, and the step that ends the suspension leaves the buffer    *)
(* holding the whole read and returns the result; a fetch starts only when  *)
(* the one before it has returned or was dropped.                           *)
C16_SingleSuspensionPoint ==
    [][/\ (pc = "idle" /\ pc' = "reading") =>
             (buffer' = <<>> /\ nread' = 0 /\ out' = out /\ pos' = pos)
       /\ (pc = "reading" /\ pc' = "reading") =>
             /\ out' = out /\ result' = result
             /\ SubSeq(buffer', 1, Len(buffer)) = buffer
             /\ other' # other => (buffer' = buffer /\ pos' = pos /\ nread' = nread)
       /\ (pc = "reading" /\ pc' = "idle") =>
             \/ /\ Len(out') = Len(out) + 1
                /\ result' # NoResult
                /\ buffer' = SubSeq(input, startPos + 1, pos')
                /\ Last(out') = ClassifyRead(Last(reads'))
             \/ (out' = out /\ result' = NoResult /\ buffer' = buffer /\ faults' = faults + 1)
       /\ (Len(out') > Len(out) /\ state = "some") => (pc = "reading" /\ pc' = "idle")
      ]_vars

C16_Witness ==
    /\ api = "tokio"
    /\ input = <<97, LF, 97, LF>>
    /\ other >= 1
    /\ pc = "idle"
    /\ out = <<Line(<<97>>), Line(<<97>>)>>

(* C14: the iterators of lib.rs behave as BufRead::lines without the UTF-8  *)
(* validation: over a source that does not fail, every call of next returns *)
(* and call i yields segment i of the input without its "\n" or "\r\n",     *)
(* then None, also when a segment is a lone "\n".                           *)
C14_LikeBufReadLines ==
    (api \in LibApis /\ faults = 0) =>
        \A i \in 1..Len(out) : out[i] = Expected(input, i)

(* C17 as stated: a slice of RefByteLines::next kept over the next call     *)
(* reads the bytes that call wrote, so for two lines of equal length it     *)
(* reads as the second line; an item of the owning ByteLines keeps its      *)
(* value.                                                                   *)
\* what the caller reads through the slice or item it kept: a slice reads
\* the allocation, whose bytes past the new length are those of its own call
HeldNow ==
    IF held.alias
    THEN [i \in 1..held.n |-> IF i <= Len(buffer) THEN buffer[i] ELSE held.bytes[i]]
    ELSE held.bytes

Indices ==
    IF api \in LibApis
    THEN RefByteLines_indices(lastRead, buffer)
    ELSE handle_line_indices(lastRead, buffer)

C19_IndicesInBounds ==
    (result # NoResult /\ (api \in Core \/ api \in LibApis)) =>
        /\ lastRead.ok => lastRead.n = Len(buffer)
        /\ \A i \in Indices : 0 <= i /\ i < Len(buffer)
        /\ result.tag \in {"SomeOk", "OkSome"} =>
              result.n \in {lastRead.n, lastRead.n - 1, lastRead.n - 2}
        /\ result.tag # "Panic"
        /\ buffer = SubSeq(input, startPos + 1, pos)

====
